---- MODULE Spec2Model ----
(***************************************************************************)
(* Collection-history store of api-data-collector-analyzer                 *)
(* (src/database/db_manager.py, class DatabaseManager).                    *)
(*                                                                         *)
(* The SQLite file is the committed state `db`.  A save_collection call    *)
(* runs on its own connection: its INSERTs go to a private working copy    *)
(* (`txn`) which conn.commit() publishes in one step; a call that raises   *)
(* never reaches commit() and its connection is dropped, which rolls the   *)
(* working copy back.  The queries (get_session_data, compare_sessions,     *)
(* get_statistics) open their own connection, see the committed state only *)
(* and change nothing: they are operators over a committed state.          *)
(***************************************************************************)
EXTENDS Integers, Sequences, FiniteSets, TLC

VARIABLES
    db,     \* committed tables and the AUTOINCREMENT counter
    now,    \* wall clock (datetime.now()), in abstract ticks
    pc,     \* per connection: position inside save_collection
    frame,  \* per connection: the locals of the running save_collection
    txn,    \* per connection: the uncommitted working copy
    lock,   \* holder of SQLite's write (RESERVED) lock, or NoConn
    ret,    \* outcome of the save_collection step taken last
    log,    \* history: the save_collection calls that committed, in order
    job_retries,  \* TaskScheduler.job_retries: retry counter per job id
    jobs,         \* the job store of the BackgroundScheduler: job ids
    event,        \* the event dispatched last to TaskScheduler._job_listener
    rd      \* the dashboard thread: position and locals of its running read

vars == <<db, now, pc, frame, txn, lock, ret, log, job_retries, jobs, event,
          rd>>

\* the state of the scheduler and of the dashboard reader, which
\* save_collection does not touch
beside == <<job_retries, jobs, event, rd>>

----------------------------------------------------------------------------
(* Bounds *)

MaxSessions == 2
MaxClock == 2

\* the number of job runs followed
MaxEvents == 6

\* TaskScheduler(max_retries=...): the retry ceiling the scheduler is built with
max_retries == 2

----------------------------------------------------------------------------
(* Values *)

NULL == "NULL"
NoConn == "none"
Conns == {"c1", "c2"}
MainThread == "c1"

KnownSources == {"reddit", "github", "hackernews"}
SourceTags == KnownSources \cup {"twitter"}

\* dict.get(key, default)
Get(item, key, default) == IF key \in DOMAIN item THEN item[key] ELSE default

\* Batches handed to save_collection.  Natural IDs are small integers; an
\* item may lack optional keys (the .get defaults apply) or its NOT NULL
\* title/name (the INSERT then raises).
BatchA == << [id |-> 1, name |-> "r1", stars |-> 10, forks |-> 2],
             [id |-> 2, name |-> "r2", stars |-> 5, forks |-> 1] >>

BatchB == << [id |-> 1, name |-> "r1", stars |-> 15, forks |-> 3],
             [id |-> 3, name |-> "r3", stars |-> 8, forks |-> 0] >>

GithubBatches ==
    { BatchA, BatchB,
      << [id |-> 2, name |-> "r2", stars |-> 7] >>,
      << [id |-> 3, name |-> "r3", stars |-> 9, forks |-> 4],
         [id |-> 4, stars |-> 1, forks |-> 1] >> }

\* three distinct posts; a post's score may be negative (downvoted)
BatchR == << [id |-> 1, title |-> "p1", score |-> -3, num_comments |-> 1],
             [id |-> 2, title |-> "p2", score |-> 1, num_comments |-> 0],
             [id |-> 3, title |-> "p3", score |-> -1, num_comments |-> 2] >>

RedditBatches ==
    { << [id |-> 1, title |-> "p1", score |-> 4, num_comments |-> 2],
         [id |-> 2, title |-> "p2"],
         [id |-> 1, title |-> "p1", score |-> 9, num_comments |-> 1] >>,
      BatchR }

HackernewsBatches ==
    { << [id |-> 1, title |-> "s1", score |-> 3, descendants |-> 1] >>,
      << [id |-> 1, title |-> "s1", score |-> 0, descendants |-> 0],
         [id |-> 2, score |-> 5, descendants |-> 2] >> }

OtherBatches ==
    { << [id |-> 1, title |-> "t1", score |-> 1] >> }

BatchesOf(source) ==
    CASE source = "reddit" -> RedditBatches
      [] source = "github" -> GithubBatches
      [] source = "hackernews" -> HackernewsBatches
      [] OTHER -> OtherBatches

IdsOf(data) == { data[k].id : k \in 1..Len(data) }

----------------------------------------------------------------------------
(* Schema *)

EmptyDb ==
    [ collection_sessions |-> {},
      sqlite_sequence     |-> 0,
      reddit_posts        |-> {},
      github_repos        |-> {},
      hackernews_stories  |-> {} ]

TableOf(source) ==
    CASE source = "reddit" -> "reddit_posts"
      [] source = "github" -> "github_repos"
      [] source = "hackernews" -> "hackernews_stories"

\* Variant: one session row per source, overwritten by every run
InsertSessionPerSource(d, source, collected_at, item_count) ==
    LET id == d.sqlite_sequence + 1
        old == { s \in d.collection_sessions : s.source = source }
        keep == IF old = {} THEN id ELSE (CHOOSE s \in old : TRUE).id
    IN  [ d EXCEPT !.collection_sessions = (@ \ old) \cup
                       { [ id |-> keep, source |-> source,
                           collected_at |-> collected_at,
                           item_count |-> item_count ] },
                   !.sqlite_sequence = id ]

\* INSERT INTO collection_sessions ...; id INTEGER PRIMARY KEY AUTOINCREMENT
InsertSession(d, source, collected_at, item_count) ==
    LET id == d.sqlite_sequence + 1
    IN  [ d EXCEPT !.collection_sessions = @ \cup
                       { [ id |-> id, source |-> source,
                           collected_at |-> collected_at,
                           item_count |-> item_count ] },
                   !.sqlite_sequence = id ]

\* Variant: INSERT OR IGNORE (a stored natural id keeps its old row)
InsertOrIgnore(table, row) ==
    IF \E r \in table : r.id = row.id THEN table ELSE table \cup { row }

\* Variant: plain INSERT into a table without the primary key
InsertNoKey(table, row) == table \cup { row }

\* Variant: the table keeps the rows of the session being written only
InsertLatestOnly(table, row) ==
    { r \in table : r.session_id = row.session_id /\ r.id # row.id }
        \cup { row }

\* INSERT OR REPLACE on a table whose primary key is the natural id
InsertOrReplace(table, row) ==
    { r \in table : r.id # row.id } \cup { row }

RedditRow(item, session_id, collected_at) ==
    [ id |-> item.id, session_id |-> session_id,
      title |-> Get(item, "title", NULL),
      score |-> Get(item, "score", 0),
      num_comments |-> Get(item, "num_comments", 0),
      collected_at |-> collected_at ]

GithubRow(item, session_id, collected_at) ==
    [ id |-> item.id, session_id |-> session_id,
      name |-> Get(item, "name", NULL),
      stars |-> Get(item, "stars", 0),
      forks |-> Get(item, "forks", 0),
      collected_at |-> collected_at ]

HackernewsRow(item, session_id, collected_at) ==
    [ id |-> item.id, session_id |-> session_id,
      title |-> Get(item, "title", NULL),
      score |-> Get(item, "score", 0),
      descendants |-> Get(item, "descendants", 0),
      collected_at |-> collected_at ]

RowOf(source, item, session_id, collected_at) ==
    CASE source = "reddit" -> RedditRow(item, session_id, collected_at)
      [] source = "github" -> GithubRow(item, session_id, collected_at)
      [] source = "hackernews" -> HackernewsRow(item, session_id, collected_at)

\* title / name are declared NOT NULL and have no default: OR REPLACE falls
\* back to ABORT and the statement raises sqlite3.IntegrityError.
NotNullViolated(source, row) ==
    IF source = "github" THEN row.name = NULL ELSE row.title = NULL

\* One statement of _save_<source>_data: the row lands in the source's table.
SaveRow(d, source, row) ==
    [ d EXCEPT ![TableOf(source)] = InsertOrReplace(@, row) ]

----------------------------------------------------------------------------
(* Read side, as functions of a committed state d *)

RankField(source) == IF source = "github" THEN "stars" ELSE "score"

\* SELECT * FROM <table> WHERE session_id = ?
SessionRows(d, session_id, source) ==
    { r \in d[TableOf(source)] : r.session_id = session_id }

\* ORDER BY <field> DESC: every listing of rows the clause allows (the
\* order among equal keys is left to the engine).
RECURSIVE OrderByDesc(_, _)
OrderByDesc(rows, field) ==
    IF rows = {} THEN { << >> }
    ELSE UNION { { << r >> \o s : s \in OrderByDesc(rows \ { r }, field) } :
                 r \in { x \in rows : \A y \in rows : x[field] >= y[field] } }

\* Variant: no WHERE session_id = ? clause
get_session_data_all(d, session_id, source) ==
    IF source \in KnownSources
    THEN OrderByDesc(d[TableOf(source)], RankField(source))
    ELSE { << >> }

\* get_session_data: the possible return values
get_session_data(d, session_id, source) ==
    IF source \in KnownSources
    THEN OrderByDesc(SessionRows(d, session_id, source), RankField(source))
    ELSE { << >> }

\* Every id a caller may pass: the ids in use, 0 and one id not yet assigned
SessionIds(d) == 0..(d.sqlite_sequence + 1)

RECURSIVE SumOf(_, _)
SumOf(data, field) ==
    IF data = << >> THEN 0
    ELSE data[1][field] + SumOf(Tail(data), field)

RECURSIVE Gcd(_, _)
Gcd(a, b) == IF b = 0 THEN a ELSE Gcd(b, a % b)

Abs(x) == IF x < 0 THEN -x ELSE x

\* The exact value n/m of a float result, in lowest terms (den = 0: nan/inf).
Rat(n, m) ==
    LET g == Gcd(Abs(n), Abs(m))
        sg == IF m < 0 THEN -1 ELSE 1
    IN  IF m = 0 THEN [ num |-> n, den |-> 0 ]
        ELSE [ num |-> sg * (n \div g), den |-> sg * (m \div g) ]

\* df[field].mean()
Mean(data, field) == Rat(SumOf(data, field), Len(data))

RatSub(a, b) == Rat(a.num * b.den - b.num * a.den, a.den * b.den)

\* (m2 - m1) / m1 * 100 if m1 > 0 else 0
ChangePercent(m1, m2) ==
    IF m1.num > 0
    THEN LET c == RatSub(m2, m1) IN Rat(c.num * m1.den * 100, c.den * m1.num)
    ELSE Rat(0, 1)

\* one entry of _compare_reddit / _compare_github / _compare_hackernews
CompareField(data1, data2, field) ==
    [ session1_mean  |-> Mean(data1, field),
      session2_mean  |-> Mean(data2, field),
      change         |-> RatSub(Mean(data2, field), Mean(data1, field)),
      change_percent |-> ChangePercent(Mean(data1, field), Mean(data2, field)) ]

_compare_reddit(data1, data2) ==
    [ score    |-> CompareField(data1, data2, "score"),
      comments |-> CompareField(data1, data2, "num_comments") ]

_compare_github(data1, data2) ==
    [ stars |-> CompareField(data1, data2, "stars"),
      forks |-> CompareField(data1, data2, "forks") ]

_compare_hackernews(data1, data2) ==
    [ score    |-> CompareField(data1, data2, "score"),
      comments |-> CompareField(data1, data2, "descendants") ]

\* Variant: `if not data1 and not data2`
compare_sessions_and(source, session_id1, session_id2, data1, data2) ==
    IF data1 = << >> /\ data2 = << >>
    THEN [ error |-> "session data not found" ]
    ELSE [ source |-> source,
           session1_id |-> session_id1,
           session2_id |-> session_id2,
           session1_count |-> Len(data1),
           session2_count |-> Len(data2),
           count_change |-> Len(data2) - Len(data1) ]

\* compare_sessions on the two item lists it loaded.  The error dict carries
\* the single key 'error'; a comparison carries no such key.
compare_sessions(source, session_id1, session_id2, data1, data2) ==
    IF data1 = << >> \/ data2 = << >>
    THEN [ error |-> "session data not found" ]
    ELSE [ source |-> source,
           session1_id |-> session_id1,
           session2_id |-> session_id2,
           session1_count |-> Len(data1),
           session2_count |-> Len(data2),
           count_change |-> Len(data2) - Len(data1),
           count_change_percent |->
               IF Len(data1) > 0
               THEN Rat((Len(data2) - Len(data1)) * 100, Len(data1))
               ELSE Rat(0, 1) ]
         @@ CASE source = "reddit" -> _compare_reddit(data1, data2)
              [] source = "github" -> _compare_github(data1, data2)
              [] source = "hackernews" -> _compare_hackernews(data1, data2)

\* compare_sessions as called: both lists are loaded from the store
CompareSessions(d, source, session_id1, session_id2) ==
    { compare_sessions(source, session_id1, session_id2, data1, data2) :
        data1 \in get_session_data(d, session_id1, source),
        data2 \in get_session_data(d, session_id2, source) }

SetMax(S) == CHOOSE x \in S : \A y \in S : y <= x

\* get_statistics
get_statistics(d) ==
    LET srcs == { s.source : s \in d.collection_sessions }
        of(x) == { s \in d.collection_sessions : s.source = x }
    IN  [ sessions_by_source |-> [ x \in srcs |-> Cardinality(of(x)) ],
          total_reddit_posts |-> Cardinality(d.reddit_posts),
          total_github_repos |-> Cardinality(d.github_repos),
          total_hackernews_stories |-> Cardinality(d.hackernews_stories),
          last_collected |->
              [ x \in srcs |-> SetMax({ s.collected_at : s \in of(x) }) ] ]

\* SELECT * FROM collection_sessions WHERE source = ?
SessionsOf(d, source) ==
    { s \in d.collection_sessions : s.source = source }

\* ORDER BY <field> ASC: every listing the clause allows
RECURSIVE OrderByAsc(_, _)
OrderByAsc(rows, field) ==
    IF rows = {} THEN { << >> }
    ELSE UNION { { << r >> \o s : s \in OrderByAsc(rows \ { r }, field) } :
                 r \in { x \in rows : \A y \in rows : x[field] <= y[field] } }

\* LIMIT ?: the first `limit` rows; a negative LIMIT means no limit
Limit(rows, limit) ==
    IF limit < 0 \/ limit >= Len(rows) THEN rows ELSE SubSeq(rows, 1, limit)

\* Variant: the latest session of any source
get_latest_session_any(d, source) ==
    { Limit(s, 1) : s \in OrderByDesc(d.collection_sessions, "collected_at") }

\* get_latest_session: the possible return values, << >> standing for None
\* and <<row>> for dict(row)
get_latest_session(d, source) ==
    { Limit(s, 1) : s \in OrderByDesc(SessionsOf(d, source), "collected_at") }

\* Variant: oldest session first
get_recent_sessions_asc(d, source, limit) ==
    { Limit(s, limit) :
        s \in OrderByAsc(SessionsOf(d, source), "collected_at") }

\* get_recent_sessions: the possible return values
get_recent_sessions(d, source, limit) ==
    { Limit(s, limit) :
        s \in OrderByDesc(SessionsOf(d, source), "collected_at") }

\* Clock ticks in one day: a tick is twelve hours.
TicksPerDay == 2

\* datetime.now() is the host's local time, SQLite's datetime('now') is UTC:
\* local time minus UTC, in ticks, for the zones a host may be set to.
UtcOffsets == { -1, 0, 1 }

\* collected_at >= datetime('now', '-' || ? || ' days').  For a negative
\* number the modifier reads '--N days', which SQLite rejects: datetime()
\* is NULL and the comparison selects no row.
TrendSessions(d, source, days, utc_now) ==
    IF days < 0 THEN {}
    ELSE { s \in SessionsOf(d, source) :
             s.collected_at >= utc_now - days * TicksPerDay }

\* the source-specific averages of one trend entry
TrendAverages(source, session_data) ==
    CASE source = "reddit" ->
            [ avg_score |-> Mean(session_data, "score"),
              avg_comments |-> Mean(session_data, "num_comments") ]
      [] source = "github" ->
            [ avg_stars |-> Mean(session_data, "stars"),
              avg_forks |-> Mean(session_data, "forks") ]
      [] source = "hackernews" ->
            [ avg_score |-> Mean(session_data, "score"),
              avg_comments |-> Mean(session_data, "descendants") ]

\* the `for session in sessions` loop of get_trend_data
RECURSIVE TrendLoop(_, _, _)
TrendLoop(d, source, sessions) ==
    IF sessions = << >> THEN << >>
    ELSE LET session == Head(sessions)
             session_data ==
                 CHOOSE x \in get_session_data(d, session.id, source) : TRUE
             rest == TrendLoop(d, source, Tail(sessions))
         IN  IF session_data = << >> THEN rest
             ELSE << [ date |-> session.collected_at,
                       session_id |-> session.id,
                       count |-> Len(session_data) ]
                     @@ TrendAverages(source, session_data) >> \o rest

\* Variant: newest session first
get_trend_data_desc(d, source, days, utc_now) ==
    { TrendLoop(d, source, sessions) :
        sessions \in OrderByDesc(TrendSessions(d, source, days, utc_now),
                                 "collected_at") }

\* get_trend_data: the possible return values, utc_now being SQLite's 'now'
get_trend_data(d, source, days, utc_now) ==
    { TrendLoop(d, source, sessions) :
        sessions \in OrderByAsc(TrendSessions(d, source, days, utc_now),
                                "collected_at") }

\* JSONResponse(content=..., status_code=...); status_code defaults to 200
JSONResponse(content, status_code) ==
    [ content |-> content, status_code |-> status_code ]

\* The body of every data endpoint: try: return JSONResponse(content=result)
\* except Exception as e: return JSONResponse({"error": str(e)}, 500).
\* `results` are the values the store call can return; the store call can
\* also raise (sqlite3.Error on an unreadable database file).
Endpoint(results) ==
    { JSONResponse(result, 200) : result \in results }
        \cup { JSONResponse([ error |-> "exception" ], 500) }

\* GET /api/stats
api_get_stats(d) == Endpoint({ get_statistics(d) })

\* GET /api/sources/{source}/sessions
api_get_sessions(d, source, limit) ==
    Endpoint(get_recent_sessions(d, source, limit))

\* GET /api/sources/{source}/trend
api_get_trend(d, source, days, utc_now) ==
    Endpoint(get_trend_data(d, source, days, utc_now))

\* GET /api/sources/{source}/session/{session_id}
api_get_session_data(d, source, session_id) ==
    Endpoint(get_session_data(d, session_id, source))

\* GET /api/sources/{source}/compare
api_compare_sessions(d, source, session_id1, session_id2) ==
    Endpoint(CompareSessions(d, source, session_id1, session_id2))

----------------------------------------------------------------------------
(* Scheduler *)

\* A job id is modelled as a sequence: << base >> stands for the id a
\* recurring job was added with, and Append(job_id, n) for the string
\* f"{job_id}_retry_{n}".
RetryId(job_id, n) == Append(job_id, n)

\* the recurring collection jobs run_scheduler_mode adds
RecurringJobs == { << "interval_reddit" >> }

\* self.job_retries = {}
NoRetries == [ job_id \in {} |-> 0 ]

\* no event yet; `seq` counts the events dispatched so far
NoEvent == [ job_id |-> << >>, exception |-> FALSE, seq |-> 0 ]


\* a date-triggered job leaves the job store when it is run, a recurring job
\* stays
AfterRun(job_id) == IF Len(job_id) > 1 THEN jobs \ { job_id } ELSE jobs

\* the key of job_retries the listener uses: event.job_id itself
RetryKey(job_id) == job_id

\* A job of the job store is run and its event (EVENT_JOB_EXECUTED or
\* EVENT_JOB_ERROR) is dispatched to _job_listener.  `exception` tells
\* whether the run raised.  `has_job` tells whether `event.job` resolves:
\* APScheduler's JobExecutionEvent carries job_id but no `job` attribute, so
\* with the stock library `event.job.func` raises AttributeError after the
\* counter was incremented and before add_job; the scheduler logs a listener's
\* exception and goes on.  add_job without replace_existing raises
\* ConflictingIdError when the id is still in the job store.
JobListener(job_id, exception, has_job) ==
    /\ job_id \in jobs
    /\ event.seq < MaxEvents
    /\ event' = [ job_id |-> job_id, exception |-> exception,
                  seq |-> event.seq + 1 ]
    /\ LET key == RetryKey(job_id)
           counted == IF key \in DOMAIN job_retries
                      THEN job_retries ELSE job_retries @@ (key :> 0)
       IN  IF exception
           THEN IF counted[key] < max_retries
                THEN /\ job_retries' = [ counted EXCEPT ![key] = @ + 1 ]
                     /\ jobs' = IF has_job
                                THEN AfterRun(job_id)
                                       \cup { RetryId(job_id, counted[key] + 1) }
                                ELSE AfterRun(job_id)
                ELSE /\ job_retries' = [ counted EXCEPT ![key] = 0 ]
                     /\ jobs' = AfterRun(job_id)
           ELSE /\ job_retries' = IF key \in DOMAIN job_retries
                                  THEN [ job_retries EXCEPT ![key] = 0 ]
                                  ELSE job_retries
                /\ jobs' = AfterRun(job_id)
    /\ UNCHANGED <<db, now, pc, frame, txn, lock, ret, log, rd>>

\* the scheduler running its jobs, each run ending in an event
SchedNext ==
    \E job_id \in jobs : \E exception, has_job \in BOOLEAN :
        JobListener(job_id, exception, has_job)

----------------------------------------------------------------------------
(* Operations *)

Idle == [ source |-> "", data |-> << >>, session_id |-> 0,
          collected_at |-> 0, i |-> 0 ]

Outcome(outcome, source, data, session_id) ==
    [ outcome |-> outcome, source |-> source, data |-> data,
      session_id |-> session_id ]

\* the dashboard thread between two requests
ReaderIdle == [ op |-> "idle" ]

Init ==
    /\ db = EmptyDb
    /\ now = 0
    /\ pc = [ c \in Conns |-> "idle" ]
    /\ frame = [ c \in Conns |-> Idle ]
    /\ txn = [ c \in Conns |-> EmptyDb ]
    /\ lock = NoConn
    /\ ret = Outcome("init", "", << >>, 0)
    /\ log = << >>
    /\ job_retries = NoRetries
    /\ jobs = RecurringJobs
    /\ event = NoEvent
    /\ rd = ReaderIdle

\* Variant: no `if not data` guard, the empty batch gets its session row
SaveEmptyUnguarded(c, source) ==
    /\ pc[c] = "idle"
    /\ lock = NoConn
    /\ db.sqlite_sequence < MaxSessions
    /\ db' = InsertSession(db, source, now, 0)
    /\ ret' = Outcome("return", source, << >>, db.sqlite_sequence + 1)
    /\ UNCHANGED <<now, pc, frame, txn, lock, log, beside>>

\* save_collection called with an empty batch: `if not data: return None`
SaveEmpty(c, source) ==
    /\ pc[c] = "idle"
    /\ ret' = Outcome("None", source, << >>, 0)
    /\ UNCHANGED <<db, now, pc, frame, txn, lock, log, beside>>

\* Variant: the INSERT does not wait for the write lock
SaveBeginUnlocked(c, source, data) ==
    /\ pc[c] = "idle"
    /\ data # << >>
    /\ db.sqlite_sequence < MaxSessions
    /\ \E t \in now..MaxClock :
        /\ now' = t
        /\ txn' = [ txn EXCEPT ![c] = InsertSession(db, source, t, Len(data)) ]
        /\ frame' = [ frame EXCEPT ![c] =
                        [ source |-> source, data |-> data,
                          session_id |-> db.sqlite_sequence + 1,
                          collected_at |-> t, i |-> 1 ] ]
    /\ lock' = c
    /\ pc' = [ pc EXCEPT ![c] =
                 IF source \in KnownSources THEN "items" ELSE "commit" ]
    /\ ret' = Outcome("running", source, data, db.sqlite_sequence + 1)
    /\ UNCHANGED <<db, log, beside>>

\* save_collection up to `session_id = cursor.lastrowid`: the clock is read,
\* the INSERT opens the write transaction and adds the session row.
SaveBegin(c, source, data) ==
    /\ pc[c] = "idle"
    /\ data # << >>
    /\ lock = NoConn
    /\ db.sqlite_sequence < MaxSessions
    /\ \E t \in now..MaxClock :
        /\ now' = t
        /\ txn' = [ txn EXCEPT ![c] = InsertSession(db, source, t, Len(data)) ]
        /\ frame' = [ frame EXCEPT ![c] =
                        [ source |-> source, data |-> data,
                          session_id |-> db.sqlite_sequence + 1,
                          collected_at |-> t, i |-> 1 ] ]
    /\ lock' = c
    /\ pc' = [ pc EXCEPT ![c] =
                 IF source \in KnownSources THEN "items" ELSE "commit" ]
    /\ ret' = Outcome("running", source, data, db.sqlite_sequence + 1)
    /\ UNCHANGED <<db, log, beside>>

\* An exception leaves save_collection before conn.commit(): the connection
\* is dropped uncommitted, which discards the working copy and frees the
\* write lock.
Raise(c, exc) ==
    /\ pc' = [ pc EXCEPT ![c] = "idle" ]
    /\ txn' = [ txn EXCEPT ![c] = EmptyDb ]
    /\ lock' = NoConn
    /\ ret' = Outcome(exc, frame[c].source, frame[c].data, frame[c].session_id)
    /\ frame' = [ frame EXCEPT ![c] = Idle ]
    /\ UNCHANGED <<db, now, log, beside>>

\* One pass of the `for item in data` loop of _save_<source>_data
SaveItem(c) ==
    /\ pc[c] = "items"
    /\ LET f == frame[c]
           row == RowOf(f.source, f.data[f.i], f.session_id, f.collected_at)
       IN  IF NotNullViolated(f.source, row)
           THEN Raise(c, "IntegrityError")
           ELSE /\ txn' = [ txn EXCEPT ![c] = SaveRow(@, f.source, row) ]
                /\ frame' = [ frame EXCEPT ![c].i = f.i + 1 ]
                /\ pc' = [ pc EXCEPT ![c] =
                             IF f.i = Len(f.data) THEN "commit" ELSE "items" ]
                /\ ret' = Outcome("running", f.source, f.data, f.session_id)
                /\ UNCHANGED <<db, now, lock, log, beside>>

\* conn.commit(); conn.close(); return session_id
SaveCommit(c) ==
    /\ pc[c] = "commit"
    /\ db' = txn[c]
    /\ lock' = NoConn
    /\ pc' = [ pc EXCEPT ![c] = "idle" ]
    /\ txn' = [ txn EXCEPT ![c] = EmptyDb ]
    /\ ret' = Outcome("return", frame[c].source, frame[c].data,
                      frame[c].session_id)
    /\ log' = Append(log, [ session_id |-> frame[c].session_id,
                            source |-> frame[c].source,
                            data |-> frame[c].data ])
    /\ frame' = [ frame EXCEPT ![c] = Idle ]
    /\ UNCHANGED <<now, beside>>

\* The single-threaded program: save_collection calls one after another on
\* the main thread.
Next ==
    \/ \E source \in SourceTags : SaveEmpty(MainThread, source)
    \/ \E source \in SourceTags : \E data \in BatchesOf(source) :
            SaveBegin(MainThread, source, data)
    \/ SaveItem(MainThread)
    \/ SaveCommit(MainThread)

Spec == Init /\ [][Next]_vars

\* save_collection while another connection holds the write lock: the
\* INSERT waits for the lock (SaveBegin) or, after the connection's busy
\* timeout, raises sqlite3.OperationalError ("database is locked").
SaveBusy(c, source, data) ==
    /\ pc[c] = "idle"
    /\ data # << >>
    /\ lock \notin { NoConn, c }
    /\ ret' = Outcome("OperationalError", source, data, 0)
    /\ UNCHANGED <<db, now, pc, frame, txn, lock, log, beside>>

\* the dashboard thread has not started its request (one request is followed)
ReaderFree == rd.op = "idle"

\* compare_sessions, first statement: data1 = get_session_data(session_id1,
\* source), read from the committed store on a connection of its own.
\* `seen` collects the committed states the call's statements read.
CompareLoad1(source, session_id1, session_id2) ==
    /\ ReaderFree
    /\ \E data1 \in get_session_data(db, session_id1, source) :
           rd' = [ op |-> "compare_sessions", source |-> source,
                   session_id1 |-> session_id1, session_id2 |-> session_id2,
                   data1 |-> data1, seen |-> { db } ]
    /\ UNCHANGED <<db, now, pc, frame, txn, lock, ret, log,
                   job_retries, jobs, event>>

\* compare_sessions, second statement and the rest of the call: data2 is
\* read on another connection, then the comparison is computed.
CompareLoad2 ==
    /\ rd.op = "compare_sessions"
    /\ \E data2 \in get_session_data(db, rd.session_id2, rd.source) :
           rd' = [ op |-> "compared", source |-> rd.source,
                   session_id1 |-> rd.session_id1,
                   session_id2 |-> rd.session_id2,
                   seen |-> rd.seen \cup { db },
                   result |-> compare_sessions(rd.source, rd.session_id1,
                                               rd.session_id2, rd.data1,
                                               data2) ]
    /\ UNCHANGED <<db, now, pc, frame, txn, lock, ret, log,
                   job_retries, jobs, event>>

\* the five SELECT statements of get_statistics, by the key each one fills
StatsKeys ==
    << "sessions_by_source", "total_reddit_posts", "total_github_repos",
       "total_hackernews_stories", "last_collected" >>

\* get_statistics, one statement: each SELECT runs outside a transaction and
\* reads the store as committed at that moment.
StatsStatement ==
    /\ ReaderFree \/ rd.op = "get_statistics"
    /\ LET k == IF ReaderFree THEN 1 ELSE rd.k
           stats == IF ReaderFree THEN << >> ELSE rd.stats
           seen == IF ReaderFree THEN {} ELSE rd.seen
           filled == Append(stats, get_statistics(db)[StatsKeys[k]])
       IN  rd' = IF k < Len(StatsKeys)
                 THEN [ op |-> "get_statistics", k |-> k + 1,
                        stats |-> filled, seen |-> seen \cup { db } ]
                 ELSE [ op |-> "statistics", seen |-> seen \cup { db },
                        result |-> [ i \in 1..Len(StatsKeys) |-> filled[i] ] ]
    /\ UNCHANGED <<db, now, pc, frame, txn, lock, ret, log,
                   job_retries, jobs, event>>

\* the source the concurrent collectors and the dashboard work on
ConcSource == "github"

\* Two collector threads saving concurrently, in any interleaving.
ConcNext ==
    \/ \E c \in Conns : \E data \in BatchesOf(ConcSource) :
            SaveBegin(c, ConcSource, data)
    \/ \E c \in Conns : \E data \in BatchesOf(ConcSource) :
            SaveBusy(c, ConcSource, data)
    \/ \E c \in Conns : SaveItem(c)
    \/ \E c \in Conns : SaveCommit(c)

ConcSpec == Init /\ [][ConcNext]_vars

\* A collector thread saving while the dashboard thread serves a request, in
\* any interleaving.
ReadNext ==
    \/ \E data \in BatchesOf(ConcSource) :
            SaveBegin(MainThread, ConcSource, data)
    \/ SaveItem(MainThread)
    \/ SaveCommit(MainThread)
    \/ \E session_id1, session_id2 \in 1..MaxSessions :
            CompareLoad1(ConcSource, session_id1, session_id2)
    \/ CompareLoad2
    \/ StatsStatement

ReadSpec == Init /\ [][ReadNext]_vars

\* the scheduler alone, its jobs failing or succeeding at will
SchedSpec == Init /\ [][SchedNext]_vars

----------------------------------------------------------------------------
(* Properties *)

Returned == ret.outcome = "return"

DataIds(data) == { data[k].id : k \in DOMAIN data }

\* The store right after session A (id 1) and then session B (id 2) were
\* created for github, starting from the empty store.
ScenarioAB ==
    /\ log = << [ session_id |-> 1, source |-> "github", data |-> BatchA ],
                [ session_id |-> 2, source |-> "github", data |-> BatchB ] >>
    /\ pc[MainThread] = "idle"

\* C1 as stated: after A then B, get_session_data(B) has the ids {1,3} and
\* compare_sessions(github, A, B) reports count_change = 0, a stars mean of
\* 7.5 for A and of 11.5 for B.
C1_AsStated ==
    ScenarioAB =>
        /\ \A data \in get_session_data(db, 2, "github") : DataIds(data) = {1, 3}
        /\ \A cmp \in CompareSessions(db, "github", 1, 2) :
            /\ "error" \notin DOMAIN cmp
            /\ cmp.count_change = 0
            /\ cmp.stars.session1_mean = Rat(15, 2)
            /\ cmp.stars.session2_mean = Rat(23, 2)

\* C1 amended: after A then B, get_session_data(B) has the ids {1,3}; item 1
\* now belongs to B, so compare_sessions(github, A, B) sees one item for A
\* and two for B: count_change = 1, stars mean 5.0 for A and 11.5 for B.
C1_ScenarioAB ==
    ScenarioAB =>
        /\ \A data \in get_session_data(db, 2, "github") : DataIds(data) = {1, 3}
        /\ \A data \in get_session_data(db, 1, "github") : DataIds(data) = {2}
        /\ \A cmp \in CompareSessions(db, "github", 1, 2) :
            /\ "error" \notin DOMAIN cmp
            /\ cmp.session1_count = 1
            /\ cmp.session2_count = 2
            /\ cmp.count_change = 1
            /\ cmp.stars.session1_mean = Rat(5, 1)
            /\ cmp.stars.session2_mean = Rat(23, 2)

C1_Witness == ScenarioAB /\ Returned /\ ret.session_id = 2

\* C2: right after save_collection returned session id s for a known source,
\* get_session_data(s, source) holds exactly the natural ids of the batch.
C2_RoundTrip ==
    (Returned /\ ret.source \in KnownSources) =>
        \A data \in get_session_data(db, ret.session_id, ret.source) :
            DataIds(data) = IdsOf(ret.data)

\* the returned call re-collected an id that an earlier session had stored
C2_Witness ==
    /\ Returned
    /\ ret.source \in KnownSources
    /\ \E k \in 1..(Len(log) - 1) :
        /\ log[k].source = ret.source
        /\ IdsOf(log[k].data) \cap IdsOf(ret.data) # {}
        /\ IdsOf(log[k].data) \ IdsOf(ret.data) # {}

ItemTables == { "reddit_posts", "github_repos", "hackernews_stories" }

\* the session row and the item rows that a returned call must have left
Landed(d0, d1, r) ==
    LET row == CHOOSE s \in d1.collection_sessions : s.id = r.session_id
    IN  /\ \E s \in d1.collection_sessions : s.id = r.session_id
        /\ row.source = r.source
        /\ row.item_count = Len(r.data)
        /\ row \notin d0.collection_sessions
        /\ d1.collection_sessions = d0.collection_sessions \cup { row }
        /\ r.source \in KnownSources
        /\ \A id \in IdsOf(r.data) :
             \E x \in d1[TableOf(r.source)] :
                x.id = id /\ x.session_id = r.session_id

\* C4 as stated: a call that raises after its session row was inserted
\* leaves the committed store exactly as it was, the store changes only when
\* a call returns, and a call that returns has left its session row and a
\* row for every item of its batch.
C4_AsStated ==
    [][ /\ (ret'.outcome = "IntegrityError" => db' = db)
        /\ (db' # db => ret'.outcome = "return")
        /\ (ret'.outcome = "return" => Landed(db, db', ret')) ]_vars

\* The failure half of C4 on its own: a call that raises leaves the committed
\* store as it was, and only a returning call changes it.
C4_RollbackOnRaise ==
    [][ /\ (ret'.outcome = "IntegrityError" => db' = db)
        /\ (db' # db => ret'.outcome = "return") ]_vars

\* C5 as stated: no session row carries a source tag outside the three known
\* ones (get_statistics has no such key), and no call for such a tag returns
\* a session id.
C5_AsStated ==
    /\ \A s \in db.collection_sessions : s.source \in KnownSources
    /\ DOMAIN get_statistics(db).sessions_by_source \subseteq KnownSources
    /\ Returned => ret.source \in KnownSources

\* C6 as stated: for an unknown source tag get_session_data gives an outcome
\* that differs from what a known source gives for a session without items
\* (an error against the empty list).
C6_AsStated ==
    \A session_id \in SessionIds(db), source \in KnownSources :
        SessionRows(db, session_id, source) = {} =>
            get_session_data(db, session_id, "twitter")
                \cap get_session_data(db, session_id, source) = {}

\* C7: no item table, committed or being written, holds two rows with the
\* same natural id.
C7_OneRowPerId ==
    \A d \in { db } \cup { txn[c] : c \in Conns } :
        \A t \in ItemTables :
            \A r1, r2 \in d[t] : r1.id = r2.id => r1 = r2

\* a natural id was stored, then stored again by a later call or later in
\* the same batch
C7_Witness ==
    /\ \E k, l \in DOMAIN log :
        /\ k < l
        /\ log[k].source = log[l].source
        /\ log[k].source \in KnownSources
        /\ IdsOf(log[k].data) \cap IdsOf(log[l].data) # {}
    /\ \E k \in DOMAIN log :
        /\ log[k].source \in KnownSources
        /\ Cardinality(IdsOf(log[k].data)) < Len(log[k].data)

\* C8: a session row, once committed, is there unchanged (same id, source,
\* collected_at, item_count) after every later step, and ids are unique.
C8_SessionsImmutable ==
    [][ /\ \A s \in db.collection_sessions : s \in db'.collection_sessions
        /\ \A s, t \in db'.collection_sessions : s.id = t.id => s = t ]_vars

\* a later session re-collected every item of an earlier session
C8_Witness ==
    \E k, l \in DOMAIN log :
        /\ k < l
        /\ log[k].source = log[l].source
        /\ IdsOf(log[k].data) \subseteq IdsOf(log[l].data)
        /\ \E s \in db.collection_sessions :
            s.id = log[k].session_id /\ s.item_count = Len(log[k].data)
        /\ \E s, t \in db.collection_sessions : s.collected_at # t.collected_at

\* the last item of a batch that carries the natural id
LastWith(data, id) ==
    data[SetMax({ k \in DOMAIN data : data[k].id = id })]

\* C9: every stored item row belongs to the latest committed call of its
\* source whose batch held its natural id, and carries the field values of
\* that batch (of the last item with that id, when the batch repeats it).
C9_LastWriteWins ==
    \A source \in KnownSources :
        \A r \in db[TableOf(source)] :
            LET ks == { k \in DOMAIN log :
                          log[k].source = source /\ r.id \in IdsOf(log[k].data) }
                last == log[SetMax(ks)]
            IN  /\ ks # {}
                /\ r.session_id = last.session_id
                /\ r = RowOf(source, LastWith(last.data, r.id),
                             last.session_id, r.collected_at)

\* an id was collected by two sessions with different field values
C9_Witness ==
    \E k, l \in DOMAIN log :
        /\ k < l
        /\ log[k].source = "github"
        /\ log[l].source = "github"
        /\ \E id \in IdsOf(log[k].data) \cap IdsOf(log[l].data) :
            LastWith(log[k].data, id) # LastWith(log[l].data, id)

\* the items a session id owns for a source tag
Owned(d, session_id, source) ==
    IF source \in KnownSources THEN SessionRows(d, session_id, source) ELSE {}

\* C10: when either session id owns no items for the source, compare_sessions
\* returns the error dict, which has no count or mean field.
C10_MissingData ==
    \A source \in SourceTags :
        \A s1, s2 \in SessionIds(db) :
            (Owned(db, s1, source) = {} \/ Owned(db, s2, source) = {}) =>
                \A cmp \in CompareSessions(db, source, s1, s2) :
                    DOMAIN cmp = { "error" }

\* a session lost all its items to later sessions while another owns some
C10_Witness ==
    \E s, t \in db.collection_sessions :
        /\ s.source = t.source
        /\ s.source \in KnownSources
        /\ Owned(db, s.id, s.source) = {}
        /\ Owned(db, t.id, t.source) # {}

RECURSIVE RowSum(_, _)
RowSum(rows, field) ==
    IF rows = {} THEN 0
    ELSE LET r == CHOOSE x \in rows : TRUE
         IN  r[field] + RowSum(rows \ { r }, field)

\* the mean of a field over the rows a session owns
OwnedMean(d, session_id, source, field) ==
    Rat(RowSum(Owned(d, session_id, source), field),
        Cardinality(Owned(d, session_id, source)))

\* result key and table column of the primary metrics of a source
Metrics(source) ==
    CASE source = "reddit" ->
            { <<"score", "score">>, <<"comments", "num_comments">> }
      [] source = "github" -> { <<"stars", "stars">>, <<"forks", "forks">> }
      [] source = "hackernews" ->
            { <<"score", "score">>, <<"comments", "descendants">> }

\* (m2 - m1) / m1 * 100 as an exact value, m1 # 0
PercentOf(m1, m2) ==
    Rat((m2.num * m1.den - m1.num * m2.den) * m1.den * 100,
        m2.den * m1.den * m1.num)

\* C11 as stated: a successful compare_sessions reports the difference of the
\* counts and its percentage of the old count and, per primary metric, the
\* difference of the means and its percentage of the old mean whenever that
\* mean is not zero, and 0 when it is zero.
C11_AsStated ==
    \A source \in KnownSources :
        \A s1, s2 \in SessionIds(db) :
            \A cmp \in CompareSessions(db, source, s1, s2) :
                "error" \notin DOMAIN cmp =>
                    LET n1 == Cardinality(Owned(db, s1, source))
                        n2 == Cardinality(Owned(db, s2, source))
                    IN  /\ cmp.count_change = n2 - n1
                        /\ cmp.count_change_percent = Rat((n2 - n1) * 100, n1)
                        /\ \A m \in Metrics(source) :
                            LET m1 == OwnedMean(db, s1, source, m[2])
                                m2 == OwnedMean(db, s2, source, m[2])
                                e == cmp[m[1]]
                            IN  /\ e.change = RatSub(m2, m1)
                                /\ m1.num # 0 =>
                                     e.change_percent = PercentOf(m1, m2)
                                /\ m1.num = 0 =>
                                     e.change_percent = Rat(0, 1)

\* C11 with the guard the code has: the percentage of the old mean when that
\* mean is positive, 0 when it is zero or negative.
C11_PositiveBaseline ==
    \A source \in KnownSources :
        \A s1, s2 \in SessionIds(db) :
            \A cmp \in CompareSessions(db, source, s1, s2) :
                "error" \notin DOMAIN cmp =>
                    \A m \in Metrics(source) :
                        LET m1 == OwnedMean(db, s1, source, m[2])
                            m2 == OwnedMean(db, s2, source, m[2])
                            e == cmp[m[1]]
                        IN  /\ e.change = RatSub(m2, m1)
                            /\ m1.num > 0 => e.change_percent = PercentOf(m1, m2)
                            /\ m1.num <= 0 => e.change_percent = Rat(0, 1)

\* the `days` arguments tried
DayArgs == { -1, 0, 1 }

\* collected_at lies in the closed window [t - days, t], t and collected_at
\* both read from the clock save_collection reads (datetime.now())
InWindow(s, days, t) ==
    /\ s.collected_at >= t - days * TicksPerDay
    /\ s.collected_at <= t

TrendIds(trend) == { trend[k].session_id : k \in DOMAIN trend }

\* get_trend_data(source, days) called at local time t on a host whose local
\* time is `off` ticks ahead of UTC has entries only for sessions in the
\* window and one for every session in the window that owns items
TrendInWindow(source, days, t, off) ==
    \A trend \in get_trend_data(db, source, days, t - off) :
        \A s \in SessionsOf(db, source) :
            /\ s.id \in TrendIds(trend) => InWindow(s, days, t)
            /\ InWindow(s, days, t) /\ Owned(db, s.id, source) # {}
                   => s.id \in TrendIds(trend)

\* C12: get_trend_data(source, days) never returns an entry for a session
\* whose collected_at lies outside [now - days, now], now being the clock at
\* the time of the call, and omits no session of the window that owns items.
C12_AsStated ==
    \A source \in KnownSources :
        \A days \in { n \in DayArgs : n > 0 } :
            \A t \in now..MaxClock :
                \A off \in UtcOffsets :
                    TrendInWindow(source, days, t, off)

\* C12 on a host whose local time is UTC
C12_UtcHost ==
    \A source \in KnownSources :
        \A days \in { n \in DayArgs : n > 0 } :
            \A t \in now..MaxClock :
                TrendInWindow(source, days, t, 0)

\* the values SQLite's 'now' may have when the local clock reads `now`
UtcClock == { now - off : off \in UtcOffsets }

\* entry key and table column of the primary metrics of a source
TrendMetrics(source) ==
    CASE source = "reddit" ->
            { <<"avg_score", "score">>, <<"avg_comments", "num_comments">> }
      [] source = "github" ->
            { <<"avg_stars", "stars">>, <<"avg_forks", "forks">> }
      [] source = "hackernews" ->
            { <<"avg_score", "score">>, <<"avg_comments", "descendants">> }

\* the selected sessions that own at least one item
Qualifying(source, days, utc_now) ==
    { s \in TrendSessions(db, source, days, utc_now) :
        Owned(db, s.id, source) # {} }

\* C13: get_trend_data returns exactly one entry per selected session that
\* owns at least one item, oldest first, each with the session's id and
\* collected_at, the number of items the session owns (at least 1) and the
\* means of the primary metrics over them; a selected session owning no item
\* has no entry, and with no qualifying session the result is the empty list.
C13_TrendEntries ==
    \A source \in SourceTags :
        \A days \in DayArgs :
            \A utc_now \in UtcClock :
                \A trend \in get_trend_data(db, source, days, utc_now) :
                    LET sel == Qualifying(source, days, utc_now)
                    IN  /\ Len(trend) = Cardinality(sel)
                        /\ TrendIds(trend) = { s.id : s \in sel }
                        /\ sel = {} => trend = << >>
                        /\ \A i, j \in DOMAIN trend :
                               i < j => trend[i].date <= trend[j].date
                        /\ \A k \in DOMAIN trend :
                             LET e == trend[k]
                                 rows == Owned(db, e.session_id, source)
                             IN  /\ \E s \in sel : /\ s.id = e.session_id
                                                   /\ s.collected_at = e.date
                                 /\ e.count = Cardinality(rows)
                                 /\ e.count >= 1
                                 /\ \A m \in TrendMetrics(source) :
                                        e[m[1]] = OwnedMean(db, e.session_id,
                                                            source, m[2])

\* a trend with an entry, computed over a selection in which an older session
\* owns no item any more and is skipped
C13_Witness ==
    /\ pc[MainThread] = "idle"
    /\ \E source \in KnownSources :
         \E days \in DayArgs :
           \E utc_now \in UtcClock :
             \E trend \in get_trend_data(db, source, days, utc_now) :
               /\ Len(trend) >= 1
               /\ \E s \in TrendSessions(db, source, days, utc_now) :
                      /\ Owned(db, s.id, source) = {}
                      /\ s.collected_at < trend[1].date

\* the committed save_collection calls for a source, as positions of the log
CallsOf(source) == { k \in DOMAIN log : log[k].source = source }

\* the natural ids that committed calls stored for a source
IdsStored(source) ==
    UNION { DataIds(log[k].data) : k \in CallsOf(source) }

\* C14: get_statistics reports, for each source with committed sessions, the
\* number of sessions created for it and the collected_at of the latest of
\* them, and for each item table the number of distinct natural ids ever
\* stored in it; sources without sessions are absent from the per-source maps.
C14_Statistics ==
    LET stats == get_statistics(db)
    IN  /\ DOMAIN stats.sessions_by_source
               = { x \in SourceTags : CallsOf(x) # {} }
        /\ DOMAIN stats.last_collected = DOMAIN stats.sessions_by_source
        /\ \A x \in DOMAIN stats.sessions_by_source :
               /\ stats.sessions_by_source[x] = Cardinality(CallsOf(x))
               /\ \E s \in db.collection_sessions :
                      /\ s.id = log[SetMax(CallsOf(x))].session_id
                      /\ s.source = x
                      /\ stats.last_collected[x] = s.collected_at
               /\ \A s \in SessionsOf(db, x) :
                      s.collected_at <= stats.last_collected[x]
        /\ stats.total_reddit_posts = Cardinality(IdsStored("reddit"))
        /\ stats.total_github_repos = Cardinality(IdsStored("github"))
        /\ stats.total_hackernews_stories
               = Cardinality(IdsStored("hackernews"))

\* C14, the scenario: after one reddit session of 3 distinct items and one
\* github session of 2 distinct items, get_statistics reports one session per
\* source, 3 reddit posts and 2 github repos.
C14_Scenario ==
    (/\ Len(log) = 2
     /\ log[1].source = "reddit" /\ Cardinality(DataIds(log[1].data)) = 3
     /\ Len(log[1].data) = 3
     /\ log[2].source = "github" /\ Cardinality(DataIds(log[2].data)) = 2
     /\ Len(log[2].data) = 2)
    => LET stats == get_statistics(db)
       IN  /\ stats.sessions_by_source = [ x \in {"reddit", "github"} |-> 1 ]
           /\ stats.total_reddit_posts = 3
           /\ stats.total_github_repos = 2

\* C14: the general statement together with the scenario
C14_Holds == C14_Statistics /\ C14_Scenario

\* the scenario's store: BatchR saved for reddit, then BatchA for github
C14_Witness ==
    /\ pc[MainThread] = "idle"
    /\ log = << [ session_id |-> 1, source |-> "reddit", data |-> BatchR ],
                [ session_id |-> 2, source |-> "github", data |-> BatchA ] >>
    /\ get_statistics(db).total_reddit_posts = 3

\* the `limit` arguments tried
LimitArgs == { -1, 0, 1, 2, 3 }

Min(a, b) == IF a <= b THEN a ELSE b

Range(seq) == { seq[k] : k \in DOMAIN seq }

\* C15: get_recent_sessions(source, limit) with limit > 0 returns
\* min(limit, number of sessions of the source) distinct sessions, all of
\* that source, newest first, and no omitted session of the source is later
\* than a returned one.
C15_RecentSessions ==
    \A source \in SourceTags :
        \A limit \in { n \in LimitArgs : n > 0 } :
            \A res \in get_recent_sessions(db, source, limit) :
                /\ Len(res) = Min(limit, Cardinality(CallsOf(source)))
                /\ Cardinality(Range(res)) = Len(res)
                /\ \A k \in DOMAIN res :
                       /\ res[k] \in db.collection_sessions
                       /\ res[k].source = source
                /\ \A i, j \in DOMAIN res :
                       i < j => res[i].collected_at >= res[j].collected_at
                /\ \A s \in db.collection_sessions :
                       s.source = source /\ s \notin Range(res)
                           => \A k \in DOMAIN res :
                                  s.collected_at <= res[k].collected_at

\* two sessions of one source collected at different times and a limit that
\* returns both, and a limit that omits the older one
C15_Witness ==
    /\ pc[MainThread] = "idle"
    /\ \E source \in KnownSources :
         /\ \E res \in get_recent_sessions(db, source, 2) :
                Len(res) = 2 /\ res[1].collected_at > res[2].collected_at
         /\ \E res \in get_recent_sessions(db, source, 1) :
                \E s \in SessionsOf(db, source) :
                    s \notin Range(res)
                        /\ s.collected_at < res[1].collected_at

\* C16: get_recent_sessions with limit <= 0 fails with InvalidArgument: the
\* call has no return value at all.
C16_AsStated ==
    \A source \in SourceTags :
        \A limit \in { n \in LimitArgs : n <= 0 } :
            get_recent_sessions(db, source, limit) = {}

\* the weaker half of C16: with limit <= 0 no session is returned
C16_NoSessionReturned ==
    \A source \in SourceTags :
        \A limit \in { n \in LimitArgs : n <= 0 } :
            \A res \in get_recent_sessions(db, source, limit) : res = << >>

\* C17: get_trend_data with days <= 0 fails with InvalidArgument instead of
\* returning a trend series: the call has no return value at all.
C17_AsStated ==
    \A source \in SourceTags :
        \A days \in { n \in DayArgs : n <= 0 } :
            \A utc_now \in UtcClock :
                get_trend_data(db, source, days, utc_now) = {}

\* the weaker reading of C17: with days <= 0 the series returned is empty
C17_EmptySeries ==
    \A source \in SourceTags :
        \A days \in { n \in DayArgs : n <= 0 } :
            \A utc_now \in UtcClock :
                \A trend \in get_trend_data(db, source, days, utc_now) :
                    trend = << >>

\* C18: get_latest_session(source) returns None exactly when no session was
\* created for the source; otherwise it returns a session of that source
\* whose collected_at is at least that of every session of the source; and
\* the result is the same whatever sessions other sources have.
C18_LatestSession ==
    \A source \in SourceTags :
        /\ \A res \in get_latest_session(db, source) :
               /\ res = << >> <=> CallsOf(source) = {}
               /\ res # << >> =>
                      /\ Len(res) = 1
                      /\ res[1] \in db.collection_sessions
                      /\ res[1].source = source
                      /\ \A s \in db.collection_sessions :
                             s.source = source
                                 => res[1].collected_at >= s.collected_at
        /\ get_latest_session(db, source)
               = get_latest_session(
                     [ db EXCEPT !.collection_sessions =
                           { s \in @ : s.source = source } ], source)

\* a source whose latest session is older than a session of another source,
\* and a source without sessions
C18_Witness ==
    /\ pc[MainThread] = "idle"
    /\ \E source \in KnownSources :
         \E res \in get_latest_session(db, source) :
             /\ res # << >>
             /\ \E s \in db.collection_sessions :
                    s.source # source /\ s.collected_at > res[1].collected_at
    /\ \E source \in KnownSources : get_latest_session(db, source) = { << >> }

\* C19: a data endpoint answers with a non-200 status and an error payload
\* whenever the store operation reports a failure; a compare request for
\* which the store reports missing session data (an error dict) is not
\* answered with status 200.
C19_AsStated ==
    \A source \in SourceTags :
        \A s1, s2 \in SessionIds(db) :
            \A resp \in api_compare_sessions(db, source, s1, s2) :
                "error" \in DOMAIN resp.content => resp.status_code # 200

\* the part of C19 the code has: a store call that raises is answered with
\* status 500 and an error payload
C19_RaisedFailure ==
    /\ \A resp \in api_get_stats(db) :
           resp.status_code # 200 =>
               resp = JSONResponse([ error |-> "exception" ], 500)
    /\ \A source \in SourceTags :
           \A s1, s2 \in SessionIds(db) :
               JSONResponse([ error |-> "exception" ], 500)
                   \in api_compare_sessions(db, source, s1, s2)

\* the responses of the four /api/sources/{source}/... endpoints
SourceResponses(source) ==
    UNION ( { api_get_sessions(db, source, limit) : limit \in LimitArgs }
            \cup { api_get_trend(db, source, days, utc_now) :
                       days \in DayArgs, utc_now \in UtcClock }
            \cup { api_get_session_data(db, source, session_id) :
                       session_id \in SessionIds(db) }
            \cup { api_compare_sessions(db, source, s1, s2) :
                       s1 \in SessionIds(db), s2 \in SessionIds(db) } )

\* C20: a request to an /api/sources/{source}/... endpoint with a source
\* other than reddit, github, hackernews is answered with status 400, never
\* with status 200 (the store call raising aside, which gives 500).
C20_AsStated ==
    \A source \in SourceTags \ KnownSources :
        \A resp \in SourceResponses(source) :
            resp.status_code # 500 => resp.status_code = 400

\* the number of retries in the chain that led to a job: 0 for a recurring
\* job, 1 for its retry, 2 for the retry of that retry
ChainLength(job_id) == Len(job_id) - 1

C21_CounterBounded ==
    \A key \in DOMAIN job_retries : job_retries[key] <= max_retries

\* the recurring job a retry job descends from
RootOf(job_id) == << Head(job_id) >>

C29_OwnCounterReset ==
    (event.seq > 0 /\ ~event.exception) =>
        (event.job_id \in DOMAIN job_retries
             => job_retries[event.job_id] = 0)

\* C24: every stored item row is owned by exactly one session of the sessions
\* table, that session has the source of the row's table, and the row's
\* collected_at is that session's collected_at.
C24_ItemsOwned ==
    \A source \in KnownSources :
        \A r \in db[TableOf(source)] :
            LET owners == { s \in db.collection_sessions :
                              s.id = r.session_id }
            IN  /\ Cardinality(owners) = 1
                /\ \A s \in owners : /\ s.source = source
                                     /\ s.collected_at = r.collected_at

\* items of two sessions of one source, collected at different times, stand
\* in the table, the later session having taken an item from the earlier
C24_Witness ==
    /\ pc[MainThread] = "idle"
    /\ \E source \in KnownSources :
         \E r1, r2 \in db[TableOf(source)] :
           /\ r1.session_id < r2.session_id
           /\ r1.collected_at < r2.collected_at
           /\ \E k \in DOMAIN log :
                  /\ log[k].session_id = r1.session_id
                  /\ r2.id \in IdsOf(log[k].data)

\* C26: get_session_data(session_id, source) returns exactly the rows whose
\* session_id is session_id, each once, the ranking field (score for reddit
\* and hackernews, stars for github) non-increasing along the list.
C26_SessionItems ==
    \A source \in KnownSources :
        \A session_id \in SessionIds(db) :
            \A data \in get_session_data(db, session_id, source) :
                /\ Range(data) = { r \in db[TableOf(source)] :
                                     r.session_id = session_id }
                /\ Len(data) = Cardinality(Range(data))
                /\ \A i, j \in DOMAIN data :
                       i < j => data[i][RankField(source)]
                                    >= data[j][RankField(source)]

\* a session with rows of different rank, next to rows of another session
C26_Witness ==
    /\ pc[MainThread] = "idle"
    /\ \E source \in KnownSources :
         \E session_id \in SessionIds(db) :
           /\ \E data \in get_session_data(db, session_id, source) :
                  /\ Len(data) >= 2
                  /\ data[1][RankField(source)] > data[2][RankField(source)]
           /\ \E r \in db[TableOf(source)] : r.session_id # session_id

\* the natural ids get_session_data returns for a session in store d
OwnedIds(d, session_id, source) ==
    { r.id : r \in Owned(d, session_id, source) }

\* C27: across every step the session_id stored with a natural id does not
\* decrease, no existing session gains an id, and the id sets of two
\* different sessions are disjoint.
C27_OwnershipForward ==
    [][ \A source \in KnownSources :
          /\ \A r \in db[TableOf(source)] :
               \A q \in db'[TableOf(source)] :
                   r.id = q.id => q.session_id >= r.session_id
          /\ \A s \in db.collection_sessions :
               OwnedIds(db', s.id, source) \subseteq OwnedIds(db, s.id, source)
          /\ \A s, t \in db'.collection_sessions :
               s.id # t.id =>
                   OwnedIds(db', s.id, source)
                       \cap OwnedIds(db', t.id, source) = {} ]_vars

\* an id moved from an earlier session to a later one, the earlier session
\* keeping another id
C27_Witness ==
    /\ pc[MainThread] = "idle"
    /\ \E source \in KnownSources :
         \E k, l \in DOMAIN log :
           /\ k < l
           /\ log[k].source = source /\ log[l].source = source
           /\ \E id \in IdsOf(log[k].data) \cap IdsOf(log[l].data) :
                  id \in OwnedIds(db, log[l].session_id, source)
           /\ OwnedIds(db, log[k].session_id, source) # {}

\* C28: for every session the number of item rows attributed to it is at
\* most its item_count.
C28_CountAtMostItemCount ==
    \A s \in db.collection_sessions :
        Cardinality(Owned(db, s.id, s.source)) <= s.item_count

\* a session owning fewer rows than its item_count after a later
\* re-collection, and one whose batch repeated a natural id
C28_Witness ==
    /\ pc[MainThread] = "idle"
    /\ \E k, l \in DOMAIN log :
         /\ k < l
         /\ log[k].source = log[l].source
         /\ log[k].source \in KnownSources
         /\ IdsOf(log[k].data) \cap IdsOf(log[l].data) # {}
         /\ \E s \in db.collection_sessions :
                /\ s.id = log[k].session_id
                /\ Cardinality(Owned(db, s.id, s.source)) < s.item_count
    /\ \E k \in DOMAIN log :
         /\ log[k].source \in KnownSources
         /\ Cardinality(IdsOf(log[k].data)) < Len(log[k].data)
         /\ \E s \in db.collection_sessions :
                /\ s.id = log[k].session_id
                /\ Cardinality(Owned(db, s.id, s.source)) < s.item_count

\* the item statements of one save_collection call, run from item k on
RECURSIVE SerialItems(_, _, _, _, _, _)
SerialItems(d, source, data, session_id, collected_at, k) ==
    IF k > Len(data) THEN d
    ELSE SerialItems(SaveRow(d, source,
                             RowOf(source, data[k], session_id, collected_at)),
                     source, data, session_id, collected_at, k + 1)

\* the store after the first k committed calls of the log ran one after
\* another on an empty store, each with the collected_at of its session
RECURSIVE SerialRun(_)
SerialRun(k) ==
    IF k = 0 THEN EmptyDb
    ELSE LET d == SerialRun(k - 1)
             call == log[k]
             at == (CHOOSE s \in db.collection_sessions :
                        s.id = call.session_id).collected_at
             opened == InsertSession(d, call.source, at, Len(call.data))
         IN  IF call.source \in KnownSources
             THEN SerialItems(opened, call.source, call.data,
                              d.sqlite_sequence + 1, at, 1)
             ELSE opened

StoredIds(d, t) == { r.id : r \in d[t] }

\* C25: no step removes a session id or a stored natural id, and a step of a
\* read operation leaves every table, committed or being written, unchanged.
C25_NoDeletion ==
    [][ /\ { s.id : s \in db.collection_sessions }
               \subseteq { s.id : s \in db'.collection_sessions }
        /\ \A t \in ItemTables : StoredIds(db, t) \subseteq StoredIds(db', t)
        /\ rd' # rd => db' = db /\ txn' = txn ]_vars

\* a read has completed on a store in which a later session replaced a row
\* of an earlier one
C25_Witness ==
    /\ rd.op \in { "compared", "statistics" }
    /\ Len(log) >= 2
    /\ IdsOf(log[1].data) \cap IdsOf(log[2].data) # {}

\* the statistics of one committed state, listed in the order of StatsKeys
StatsOf(d) == [ i \in 1..Len(StatsKeys) |-> get_statistics(d)[StatsKeys[i]] ]

\* C22: a read running concurrently with save_collection sees a new session
\* either not at all or whole: what get_statistics returns is the statistics
\* of one committed state of the store.
C22_AsStated ==
    rd.op = "statistics" => \E d \in rd.seen : rd.result = StatsOf(d)

\* what does hold for C22: every single statement reads a committed state
\* (no uncommitted row is ever seen)
C22_NoDirtyRead ==
    rd.op = "statistics" =>
        \A i \in 1..Len(StatsKeys) :
            \E d \in rd.seen : rd.result[i] = StatsOf(d)[i]

\* C30: what compare_sessions returns while a writer commits is what it
\* returns on one committed state of the store, the one before or the one
\* after the write.
C30_AsStated ==
    rd.op = "compared" =>
        \E d \in rd.seen :
            rd.result \in CompareSessions(d, rd.source, rd.session_id1,
                                          rd.session_id2)

====
